---- MODULE Spec2Model ----
(***************************************************************************)
(* A model of tfsnippet's training-loop driver:                            *)
(*   - BaseTrainer.run() and its four hook lists                           *)
(*     (src/tfsnippet/trainer/base_trainer.py);                            *)
(*   - HookList (tfsnippet/trainer/hooks.py is not part of the sources at  *)
(*     hand; it is modelled from section 4.1 of the specification);        *)
(*   - the two precondition helpers of tfsnippet.utils, also modelled from *)
(*     the specification (section 4.3);                                    *)
(*   - AnnealingDynamicValue, modelled from section 4.2;                   *)
(*   - flatten(), unflatten() and resolve_negative_axis() of               *)
(*     src/tfsnippet/utils/shape_utils.py.                                 *)
(*                                                                         *)
(* The specifications share the variables:                                 *)
(*   Spec    the trainer: registrations while idle, run(), the callbacks   *)
(*           run() makes (hooks, step iterator, step-runner), which may    *)
(*           return, raise, or call run() again;                           *)
(*   SpecHL  one HookList driven directly through its own interface        *)
(*           (add_hook, call_hooks, reset);                                *)
(*   SpecRuns   runs, one after the other, of a trainer with a before-     *)
(*           epoch hook and an after-step hook, every invocation recorded; *)
(*   SpecReg    the cadence methods (log_after, evaluate_after,            *)
(*           anneal_after) and the removal methods of an idle trainer;     *)
(*   SpecDV     anneal() and get() on one dynamic value;                   *)
(*   SpecCadence  the cadence methods on a trainer that has run before;    *)
(*   SpecLive   SpecRuns' trainer under fairness, for termination;         *)
(*   SpecShape  flatten(x, k), then unflatten on what it returned, and     *)
(*           resolve_negative_axis(ndims, axis).                           *)
(***************************************************************************)
EXTENDS Integers, Sequences, FiniteSets, TLC

\* ------------------------------------------------------------------ bounds
\* hooks registered on the trainer's lists in Spec
MaxTrainerHooks == 1
\* hooks registered on the directly driven list in SpecHL
MaxListHooks == 2
\* largest hook frequency tried
MaxFreq == 2
\* epochs the epoch iterator may yield in one run
MaxEpochs == 2
\* payloads a step iterator may yield in one epoch
MaxSteps == 2
\* direct call_hooks() invocations between two reset() calls in SpecHL
MaxCalls == 4
\* registrations made in SpecReg
MaxRegistrations == 2
\* SpecRuns: the run() calls refused during one run are counted up to here
MaxRejected == 2
\* SpecShape: the largest rank of the tensor, and the largest size of one of
\* its dimensions
MaxRank == 3
MaxDim == 2
\* SpecShape: the largest number of indices handed to resolve_negative_axis
MaxAxes == 2
\* SpecDV: anneal() calls on one DynamicValue
MaxAnneals == 3
\* SpecDV: the initial value is an integer of at most this magnitude; the
\* anneal factor is a fraction of two naturals up to it
MaxValue == 2
\* SpecRuns: the epochs of the loop, the payloads of each epoch, and the
\* frequency of the after-step hook
E2EEpochs == 3
E2ESteps == 2
E2EFreq == 2

\* --------------------------------------------------------------- constants
\* BaseTrainer.hook_lists, in the order of the tuple
ListNames == <<"before_epochs", "before_steps", "after_steps", "after_epochs">>

Lists == {ListNames[i] : i \in 1..Len(ListNames)}

\* HookPriority: a fixed total order of the three priorities the trainer uses
EVALUATION == 500
ANNEALING == 1500
LOGGING == 10000

Priorities == {EVALUATION, ANNEALING, LOGGING}

\* the errors
ReentrancyError == "RuntimeError: run() is not re-entrant"
NoSessionError == "RuntimeError: no default session"
NotInitializedError == "RuntimeError: variables not initialized"
HookError == "HookError"
StepError == "StepError"
IterError == "IterError"

InitErrors == {NoSessionError, NotInitializedError}

\* the ValueError of check_epochs_and_steps_arg, and the error of a removal
\* by an unsupported priority
ConfigurationError == "ConfigurationError"

\* the ValueError of shape_utils
ValueError == "ValueError"

\* an optional value: None when there is none, <<v>> for the value v
None == <<>>

Given(n) == <<n>>

\* the HookList that SpecHL drives directly
HLList == "after_steps"

VARIABLES
  is_fitting,   \* BaseTrainer._is_fitting
  hooks,        \* list name -> the HookList's entries, in firing order
  counter,      \* list name -> the HookList's trigger counter
  nextId,       \* 1 + the number of callbacks registered so far
  frames,       \* the run() calls on the stack, outermost first
  \* what the most recent top-level operation (a registration, a run(), a
  \* direct call on a HookList) did and gave its caller:
  log,          \* the events of the run(), in order
  fired,        \* the hooks invoked by the most recent call_hooks()
  raised,       \* the error most recently raised into the run(), and where
  ret,          \* the operation and its result
  win,          \* per hook: its first `freq` direct triggers (SpecHL)
  loop,         \* BaseTrainer._loop: the budget of its two iterators
  obs,          \* observer of the callbacks invoked by a run() (SpecRuns)
  dv,           \* an annealed DynamicValue (SpecDV)
  sh            \* a flatten() / unflatten() call on a tensor (SpecShape)

vars == <<is_fitting, hooks, counter, nextId, frames, log, fired, raised, ret,
          win, loop, obs, dv, sh>>

\* ---------------------------------------------------------------- HookList

HookEntry(id, freq, priority) == [id |-> id, freq |-> freq, priority |-> priority]

InsertHook_Append(hs, h) == Append(hs, h)

\* add_hook: the entry goes after every entry of lower or equal priority
InsertHook(hs, h) ==
  LET k == Cardinality({i \in 1..Len(hs) : hs[i].priority <= h.priority})
  IN  SubSeq(hs, 1, k) \o <<h>> \o SubSeq(hs, k + 1, Len(hs))

TriggerCount_NoIncrement(c) == c

\* call_hooks: the counter after the increment
TriggerCount(c) == c + 1

DueHooks_OffByOne(hs, c) == SelectSeq(hs, LAMBDA h : (c - 1) % h.freq = 0)

\* call_hooks: the entries to invoke at counter value c, in firing order
DueHooks(hs, c) == SelectSeq(hs, LAMBDA h : c % h.freq = 0)

\* reset: the counter afterwards
ResetCount == 0

IsPrefix(s, t) == Len(s) <= Len(t) /\ SubSeq(t, 1, Len(s)) = s

\* ------------------------------------------------------------ BaseTrainer

NoRaise == [err |-> "none", at |-> 0, nfired |-> 0]

\* a run() call that passed line 70, entering the try block. session,
\* initialized: whether a default session exists and the variables are
\* initialized as the call is made
NewFrame(s, i) == [pc |-> "try", epoch |-> 0, step |-> 0, list |-> "none",
                   pending |-> <<>>, inner |-> "none", exc |-> "none",
                   session |-> s, initialized |-> i]

Top == frames[Len(frames)]

SetTop(f) == [frames EXCEPT ![Len(frames)] = f]

RunRejected_NoCheck == FALSE

FlagOnEntry_Unset == is_fitting

\* run(), line 71: _is_fitting once the call has passed the check
FlagOnEntry == TRUE

FlagAfterRejection_Cleared == FALSE

\* run(), lines 69-70: the error is raised before the try statement is
\* entered, so the finally clause does not run and _is_fitting stays
FlagAfterRejection == is_fitting

\* run(), lines 69-70: the call is refused
RunRejected == is_fitting

\* tfsnippet.utils.get_default_session_or_error: the error it raises, or "none"
get_default_session_or_error(f) == IF f.session THEN "none" ELSE NoSessionError

\* tfsnippet.utils.ensure_variables_initialized: the error it raises, or "none"
ensure_variables_initialized(f) ==
  IF f.initialized THEN "none" ELSE NotInitializedError

PreconditionError_SessionOnly(f) == get_default_session_or_error(f)

\* run(), lines 74-75: the error of the precondition checks, or "none"
PreconditionError(f) ==
  IF get_default_session_or_error(f) # "none"
    THEN get_default_session_or_error(f)
    ELSE ensure_variables_initialized(f)

OnError_Swallowed(f, e) == [f EXCEPT !.pc = "finally", !.exc = "none",
                                     !.list = "none", !.pending = <<>>,
                                     !.inner = "none"]

\* run(), lines 72 and 99: an error raised inside the try block is not
\* caught; control goes to the finally clause with the error pending
OnError(f, e) == [f EXCEPT !.pc = "finally", !.exc = e, !.list = "none",
                           !.pending = <<>>, !.inner = "none"]

FlagAfterRun_Missing(f) == is_fitting

FlagAfterRun_OnSuccessOnly(f) == f.exc # "none"

FlagAfterRun_OnErrorOnly(f) == f.exc = "none"

\* run(), line 100: _is_fitting after the finally clause
FlagAfterRun(f) == FALSE

CountersOnEpoch_StepReset ==
  [counter EXCEPT !["before_steps"] = 0, !["after_steps"] = 0]

\* run(), lines 78-84: the reset() calls are made before the epoch loop, and
\* none inside it: the counters as an epoch begins
CountersOnEpoch == counter

OnEpochYield_NoBeforeEpochs == "step_iter"

\* run(), lines 82-84: where an epoch from the iterator leads
OnEpochYield == "before_epochs"

OnStepYield_NoBeforeSteps == "call_step"

\* run(), lines 87-89: where a payload from the step iterator leads
OnStepYield == "before_steps"

OnStepsEnd_NoAfterEpochs == "epoch_iter"

\* run(), lines 87 and 97-98: where the end of the step iterator leads
OnStepsEnd == "after_epochs"

AfterHooks_StepSkipped(l) ==
  CASE l = "before_epochs" -> "step_iter"
    [] l = "before_steps"  -> "after_steps"
    [] l = "after_steps"   -> "step_iter"
    [] l = "after_epochs"  -> "epoch_iter"

\* run(), lines 84-98: the statement after each call_hooks()
AfterHooks(l) ==
  CASE l = "before_epochs" -> "step_iter"
    [] l = "before_steps"  -> "call_step"
    [] l = "after_steps"   -> "step_iter"
    [] l = "after_epochs"  -> "epoch_iter"

\* run(), line 92: the payload handed to _run_step
StepArgument(f) == f.step

\* --------------------------------------------------------------- observer

\* the observer switched off: it records nothing (Spec, SpecHL, SpecReg)
NoObs == [on |-> FALSE, stale |-> FALSE, calls |-> <<>>, rejected |-> 0]

\* the call_hooks() of list l made so far by the run() in progress
Triggers(l) == Cardinality({i \in DOMAIN log : log[i][1] = l})

\* the observer after a run() call: whether the call was made with a trigger
\* counter that earlier runs left at a value that is no multiple of the
\* frequency of a hook of its list
ObsRun ==
  IF obs.on /\ ~is_fitting
    THEN [obs EXCEPT !.calls = <<>>, !.rejected = 0,
                     !.stale = \E l \in Lists : \E k \in 1..Len(hooks[l]) :
                                 counter[l] % hooks[l][k].freq # 0]
    ELSE obs

\* the observer after the callback of entry h of list l was invoked by the
\* n-th call_hooks() of l in this run, during epoch f.epoch - 1 and after
\* f.step payloads of that epoch
ObsCall(h, l, n, f) ==
  IF obs.on
    THEN [obs EXCEPT !.calls = Append(@, [list |-> l, id |-> h.id, n |-> n,
                                          epoch |-> f.epoch - 1,
                                          step |-> f.step])]
    ELSE obs

\* the observer after a run() call was refused during the run in progress
ObsRejected ==
  IF obs.on /\ obs.rejected < MaxRejected
    THEN [obs EXCEPT !.rejected = @ + 1]
    ELSE obs

\* placeholders of the components a specification does not drive
NoDynamicValue == [op |-> "none", k |-> 0]

NoShapeCall == [op |-> "none", k |-> 0]

\* ------------------------------------------------------------------- Init

\* the trainer after __init__, lines 44-55; the loop handed to it yields at
\* most max_epoch epochs of at most max_step payloads
Trainer(max_epoch, max_step) ==
  /\ is_fitting = FALSE
  /\ hooks = [l \in Lists |-> <<>>]
  /\ counter = [l \in Lists |-> 0]
  /\ nextId = 1
  /\ frames = <<>>
  /\ log = <<>>
  /\ fired = <<>>
  /\ raised = NoRaise
  /\ ret = [op |-> "init", res |-> "none"]
  /\ win = [i \in {} |-> NoRaise]
  /\ loop = [max_epoch |-> max_epoch, max_step |-> max_step]

Init ==
  /\ Trainer(MaxEpochs, MaxSteps)
  /\ obs = NoObs
  /\ dv = NoDynamicValue
  /\ sh = NoShapeCall

\* ---------------------------------------------------- operations while idle

\* HookList.add_hook(callback, freq, priority) on one of the trainer's lists
\* (through log_after_*, evaluate_after_*, anneal_after_*, or the list itself)
\* callback: the identity of the registered callable
add_hook(l, callback, freq, priority) ==
  /\ hooks' = [hooks EXCEPT ![l] = InsertHook(@, HookEntry(callback, freq, priority))]
  /\ nextId' = nextId + 1
  /\ ret' = [op |-> "add_hook", res |-> "none"]

\* the callback is identified by its rank among the registrations on list l
Register(l, freq, priority) ==
  /\ frames = <<>>
  /\ nextId <= MaxTrainerHooks
  /\ add_hook(l, Len(hooks[l]) + 1, freq, priority)
  /\ log' = <<>>
  /\ fired' = <<>>
  /\ raised' = NoRaise
  /\ UNCHANGED <<is_fitting, counter, frames, win,
                 loop, obs, dv, sh>>

\* ------------------------------------------------------------------- run()

\* lines 73-80 for the frame f of a call that passed line 70: the frame after
\* the precondition checks and the reset() of the four hook lists
Setup(f) ==
  IF PreconditionError(f) # "none"
    THEN OnError(f, PreconditionError(f))
    ELSE [f EXCEPT !.pc = "epoch_iter"]

SetupCounters_NoReset(f) == counter

\* lines 79-80: the counters after them (they are not reached when a
\* precondition check fails)
SetupCounters(f) ==
  IF PreconditionError(f) # "none" THEN counter
  ELSE [l \in Lists |-> ResetCount]

\* run() called by the user, lines 67-80: the re-entrancy check, the
\* precondition checks, the resets (no callback runs in between)
Run(s, i) ==
  /\ frames = <<>>
  /\ log' = <<>>
  /\ fired' = <<>>
  /\ IF RunRejected
       THEN /\ ret' = [op |-> "run", res |-> ReentrancyError]
            /\ raised' = NoRaise
            /\ is_fitting' = FlagAfterRejection
            /\ UNCHANGED <<frames, counter>>
       ELSE /\ is_fitting' = FlagOnEntry
            /\ frames' = <<Setup(NewFrame(s, i))>>
            /\ counter' = SetupCounters(NewFrame(s, i))
            /\ raised' = [err |-> PreconditionError(NewFrame(s, i)), at |-> 0,
                          nfired |-> 0]
            /\ ret' = [op |-> "run", res |-> "running"]
  /\ obs' = ObsRun
  /\ UNCHANGED <<hooks, nextId, win,
                 loop, dv, sh>>

\* run() called from a hook callback or from the step-runner of a run() in
\* progress, lines 67-80
NestedRun(s, i) ==
  /\ frames # <<>>
  /\ Top.pc \in {"callback", "run_step"}
  /\ Top.inner = "none"
  /\ IF RunRejected
       THEN /\ frames' = SetTop([Top EXCEPT !.inner = ReentrancyError])
            /\ is_fitting' = FlagAfterRejection
            /\ obs' = ObsRejected
            /\ UNCHANGED <<counter, raised>>
       ELSE /\ is_fitting' = FlagOnEntry
            /\ frames' = Append(frames, Setup(NewFrame(s, i)))
            /\ counter' = SetupCounters(NewFrame(s, i))
            /\ raised' = [err |-> PreconditionError(NewFrame(s, i)),
                          at |-> Len(log), nfired |-> Len(fired)]
            /\ UNCHANGED obs
  /\ UNCHANGED <<hooks, nextId, log, fired, ret, win,
                 loop, dv, sh>>

\* line 82: the epoch iterator yields, ends, or raises
IterEpochs ==
  /\ frames # <<>>
  /\ Top.pc = "epoch_iter"
  /\ \/ /\ Top.epoch < loop.max_epoch
        /\ frames' = SetTop([Top EXCEPT !.pc = OnEpochYield, !.epoch = @ + 1,
                                        !.step = 0])
        /\ log' = Append(log, <<"epoch", Top.epoch>>)
        /\ counter' = CountersOnEpoch
        /\ UNCHANGED raised
     \/ /\ frames' = SetTop([Top EXCEPT !.pc = "finally"])
        /\ UNCHANGED <<log, raised, counter>>
     \/ /\ frames' = SetTop(OnError(Top, IterError))
        /\ raised' = [err |-> IterError, at |-> Len(log),
                       nfired |-> Len(fired)]
        /\ UNCHANGED <<log, counter>>
  /\ UNCHANGED <<is_fitting, hooks, nextId,
                 fired, ret, win,
                 loop, obs, dv, sh>>

\* line 87: the step iterator yields, ends, or raises
IterSteps ==
  /\ frames # <<>>
  /\ Top.pc = "step_iter"
  /\ \/ /\ Top.step < loop.max_step
        /\ frames' = SetTop([Top EXCEPT !.pc = OnStepYield, !.step = @ + 1])
        /\ log' = Append(log, <<"payload", Top.step + 1>>)
        /\ UNCHANGED raised
     \/ /\ frames' = SetTop([Top EXCEPT !.pc = OnStepsEnd])
        /\ UNCHANGED <<log, raised>>
     \/ /\ frames' = SetTop(OnError(Top, IterError))
        /\ raised' = [err |-> IterError, at |-> Len(log),
                       nfired |-> Len(fired)]
        /\ UNCHANGED log
  /\ UNCHANGED <<is_fitting, hooks, counter, nextId,
                 fired, ret, win,
                 loop, obs, dv, sh>>

\* lines 84, 89, 95, 98: call_hooks() of the list is entered: the counter is
\* incremented and the first due callback, if any, is invoked
CallHooks ==
  /\ frames # <<>>
  /\ Top.pc \in Lists
  /\ LET l   == Top.pc
         c   == TriggerCount(counter[l])
         due == DueHooks(hooks[l], c)
     IN  /\ counter' = [counter EXCEPT ![l] = c]
         /\ log' = Append(log, <<l, IF l \in {"before_epochs", "after_epochs"}
                                      THEN Top.epoch - 1 ELSE Top.step>>)
         /\ IF due = <<>>
              THEN /\ fired' = <<>>
                   /\ frames' = SetTop([Top EXCEPT !.pc = AfterHooks(l)])
                   /\ UNCHANGED obs
              ELSE /\ fired' = <<Head(due)>>
                   /\ frames' = SetTop([Top EXCEPT !.pc = "callback", !.list = l,
                                                   !.pending = Tail(due)])
                   /\ obs' = ObsCall(Head(due), l, Triggers(l) + 1, Top)
  /\ UNCHANGED <<is_fitting, hooks, nextId, raised, ret,
                 win,
                 loop, dv, sh>>

\* a hook callback returns: the next due callback is invoked, or call_hooks()
\* returns
CallbackReturn ==
  /\ frames # <<>>
  /\ Top.pc = "callback"
  /\ Top.inner = "none"
  /\ IF Top.pending = <<>>
       THEN /\ frames' = SetTop([Top EXCEPT !.pc = AfterHooks(Top.list),
                                            !.list = "none"])
            /\ UNCHANGED <<fired, obs>>
       ELSE /\ frames' = SetTop([Top EXCEPT !.pending = Tail(@)])
            /\ fired' = Append(fired, Head(Top.pending))
            /\ obs' = ObsCall(Head(Top.pending), Top.list,
                              Triggers(Top.list), Top)
  /\ UNCHANGED <<is_fitting, hooks, counter, nextId,
                 log, raised, ret, win,
                 loop, dv, sh>>

\* a hook callback raises an error of its own
CallbackRaise ==
  /\ frames # <<>>
  /\ Top.pc = "callback"
  /\ Top.inner = "none"
  /\ frames' = SetTop(OnError(Top, HookError))
  /\ raised' = [err |-> HookError, at |-> Len(log),
                       nfired |-> Len(fired)]
  /\ UNCHANGED <<is_fitting, hooks, counter, nextId,
                 log, fired, ret, win,
                 loop, obs, dv, sh>>

\* line 92: _run_step(session, payload) is called
CallStep ==
  /\ frames # <<>>
  /\ Top.pc = "call_step"
  /\ frames' = SetTop([Top EXCEPT !.pc = "run_step"])
  /\ log' = Append(log, <<"run_step", StepArgument(Top)>>)
  /\ UNCHANGED <<is_fitting, hooks, counter, nextId,
                 fired, raised, ret, win,
                 loop, obs, dv, sh>>

\* _run_step returns
StepReturn ==
  /\ frames # <<>>
  /\ Top.pc = "run_step"
  /\ Top.inner = "none"
  /\ frames' = SetTop([Top EXCEPT !.pc = "after_steps"])
  /\ UNCHANGED <<is_fitting, hooks, counter, nextId,
                 log, fired, raised, ret, win,
                 loop, obs, dv, sh>>

\* _run_step raises an error of its own
StepRaise ==
  /\ frames # <<>>
  /\ Top.pc = "run_step"
  /\ Top.inner = "none"
  /\ frames' = SetTop(OnError(Top, StepError))
  /\ raised' = [err |-> StepError, at |-> Len(log),
                       nfired |-> Len(fired)]
  /\ UNCHANGED <<is_fitting, hooks, counter, nextId,
                 log, fired, ret, win,
                 loop, obs, dv, sh>>

\* the callback (or step-runner) that called run() lets the outcome of that
\* call propagate: an error of the nested call is raised into the outer run()
NestedPropagate ==
  /\ frames # <<>>
  /\ Top.pc \in {"callback", "run_step"}
  /\ Top.inner \notin {"none", "returned"}
  /\ frames' = SetTop(OnError(Top, Top.inner))
  /\ raised' = [err |-> Top.inner, at |-> Len(log),
                       nfired |-> Len(fired)]
  /\ UNCHANGED <<is_fitting, hooks, counter, nextId,
                 log, fired, ret, win,
                 loop, obs, dv, sh>>

\* the callback (or step-runner) that called run() catches the error of that
\* call (or the call returned) and goes on
NestedCatch ==
  /\ frames # <<>>
  /\ Top.pc \in {"callback", "run_step"}
  /\ Top.inner # "none"
  /\ frames' = SetTop([Top EXCEPT !.inner = "none"])
  /\ UNCHANGED <<is_fitting, hooks, counter, nextId,
                 log, fired, raised, ret, win,
                 loop, obs, dv, sh>>

\* lines 99-100: the finally clause, then run() returns or the pending error
\* reaches the caller
Finally ==
  /\ frames # <<>>
  /\ Top.pc = "finally"
  /\ is_fitting' = FlagAfterRun(Top)
  /\ LET res == IF Top.exc = "none" THEN "returned" ELSE Top.exc
     IN  IF Len(frames) = 1
           THEN /\ frames' = <<>>
                /\ ret' = [op |-> "run", res |-> res]
           ELSE /\ frames' = [SubSeq(frames, 1, Len(frames) - 1)
                                EXCEPT ![Len(frames) - 1].inner = res]
                /\ UNCHANGED ret
  /\ UNCHANGED <<hooks, counter, nextId, log, fired,
                 raised, win,
                 loop, obs, dv, sh>>

Next ==
  \/ \E l \in Lists, f \in 1..MaxFreq, p \in Priorities : Register(l, f, p)
  \/ \E s \in BOOLEAN, i \in BOOLEAN : Run(s, i)
  \/ \E s \in BOOLEAN, i \in BOOLEAN : NestedRun(s, i)
  \/ IterEpochs
  \/ IterSteps
  \/ CallHooks
  \/ CallbackReturn
  \/ CallbackRaise
  \/ CallStep
  \/ StepReturn
  \/ StepRaise
  \/ NestedPropagate
  \/ NestedCatch
  \/ Finally

Spec == Init /\ [][Next]_vars

\* ------------------------------------ repeated runs of one configured trainer

\* a trainer whose loop yields up to E2EEpochs epochs of up to E2ESteps
\* payloads, after before_epochs.add_hook(cb1, freq=1, priority=p) and
\* after_steps.add_hook(cb2, freq=E2EFreq, priority=q); the observer is on
InitRuns ==
  /\ is_fitting = FALSE
  /\ \E p \in Priorities, q \in Priorities :
       hooks = [l \in Lists |->
                  CASE l = "before_epochs" -> InsertHook(<<>>, HookEntry(1, 1, p))
                    [] l = "after_steps"   -> InsertHook(<<>>, HookEntry(2, E2EFreq, q))
                    [] OTHER               -> <<>>]
  /\ counter = [l \in Lists |-> 0]
  /\ nextId = 3
  /\ frames = <<>>
  /\ log = <<>>
  /\ fired = <<>>
  /\ raised = NoRaise
  /\ ret = [op |-> "add_hook", res |-> "none"]
  /\ win = [i \in {} |-> NoRaise]
  /\ loop = [max_epoch |-> E2EEpochs, max_step |-> E2ESteps]
  /\ obs = [NoObs EXCEPT !.on = TRUE]
  /\ dv = NoDynamicValue
  /\ sh = NoShapeCall

NextRuns ==
  \/ \E s \in BOOLEAN, i \in BOOLEAN : Run(s, i)
  \/ \E s \in BOOLEAN, i \in BOOLEAN : NestedRun(s, i)
  \/ IterEpochs
  \/ IterSteps
  \/ CallHooks
  \/ CallbackReturn
  \/ CallbackRaise
  \/ CallStep
  \/ StepReturn
  \/ StepRaise
  \/ NestedPropagate
  \/ NestedCatch
  \/ Finally

SpecRuns == InitRuns /\ [][NextRuns]_vars

\* ------------------------------------------------------ runs that must end

\* the trainer of InitRuns with both hooks of priority LOGGING, a loop of up
\* to MaxEpochs epochs of up to MaxSteps payloads, and the observer off
InitLive ==
  /\ is_fitting = FALSE
  /\ hooks = [l \in Lists |->
               CASE l = "before_epochs" -> InsertHook(<<>>, HookEntry(1, 1, LOGGING))
                 [] l = "after_steps"   -> InsertHook(<<>>, HookEntry(2, MaxFreq, LOGGING))
                 [] OTHER               -> <<>>]
  /\ counter = [l \in Lists |-> 0]
  /\ nextId = 3
  /\ frames = <<>>
  /\ log = <<>>
  /\ fired = <<>>
  /\ raised = NoRaise
  /\ ret = [op |-> "add_hook", res |-> "none"]
  /\ win = [i \in {} |-> NoRaise]
  /\ loop = [max_epoch |-> MaxEpochs, max_step |-> MaxSteps]
  /\ obs = NoObs
  /\ dv = NoDynamicValue
  /\ sh = NoShapeCall

\* the statements of run() itself are executed, and the iterators, which are
\* finite, answer when asked for the next epoch or payload
RunProgress == IterEpochs \/ IterSteps \/ CallHooks \/ CallStep \/ Finally

\* a hook callback returns or raises (an error of its own, or the one of a
\* run() call it made), however often it calls run() and catches the error
\* before
CallbackEnds ==
  /\ frames # <<>>
  /\ Top.pc = "callback"
  /\ CallbackReturn \/ CallbackRaise \/ NestedPropagate

\* a step-runner call returns or raises, in the same way
StepEnds ==
  /\ frames # <<>>
  /\ Top.pc = "run_step"
  /\ StepReturn \/ StepRaise \/ NestedPropagate

SpecLive ==
  /\ InitLive
  /\ [][NextRuns]_vars
  /\ WF_vars(RunProgress)
  /\ SF_vars(CallbackEnds)
  /\ SF_vars(StepEnds)

\* ------------------------------------------- registration and removal calls

check_epochs_and_steps_arg_NeitherOnly(epochs, steps) ==
  epochs = None /\ steps = None

\* lines 13-17: whether the check raises
check_epochs_and_steps_arg(epochs, steps) ==
  \/ epochs # None /\ steps # None
  \/ epochs = None /\ steps = None

CadenceList_Swapped(epochs, steps) ==
  IF epochs # None THEN "after_steps" ELSE "after_epochs"

\* lines 227-230, 282-285, 343-346: the list the hook is added to
CadenceList(epochs, steps) ==
  IF epochs # None THEN "after_epochs" ELSE "after_steps"

\* lines 227-230, 282-285, 343-346: the freq handed on
CadenceFreq(epochs, steps) == IF epochs # None THEN epochs[1] ELSE steps[1]

\* lines 201-202, 211-212: the priority of log_after_steps / log_after_epochs
LogPriority == LOGGING

\* lines 251-252, 264-265: the priority of evaluate_after_steps / _epochs
EvaluatePriority == EVALUATION

\* lines 312-313, 325-326: the priority of anneal_after_steps / _epochs
AnnealPriority == ANNEALING

HooksOnError_AddedFirst(priority) ==
  [hooks EXCEPT !["after_steps"] = InsertHook(@, HookEntry(nextId, 1, priority))]

\* lines 226, 281, 342: the check is the first statement of the method, so
\* the lists are untouched when it raises
HooksOnError(priority) == hooks

\* which of the two arguments a call was given
ArgsGiven(epochs, steps) ==
  CASE epochs # None /\ steps # None -> "both"
    [] epochs # None /\ steps = None -> "epochs"
    [] epochs = None /\ steps # None -> "steps"
    [] OTHER                         -> "neither"

\* log_after / evaluate_after / anneal_after (epochs, steps): the check, then
\* the _epochs or the _steps method, which adds the callback to its list
CadenceCall(op, priority, epochs, steps) ==
  /\ frames = <<>>
  /\ IF check_epochs_and_steps_arg(epochs, steps)
       THEN /\ ret' = [op |-> op, given |-> ArgsGiven(epochs, steps),
                       res |-> ConfigurationError]
            /\ hooks' = HooksOnError(priority)
            /\ UNCHANGED nextId
       ELSE /\ nextId <= MaxRegistrations
            /\ hooks' = [hooks EXCEPT ![CadenceList(epochs, steps)] =
                           InsertHook(@, HookEntry(nextId,
                                                   CadenceFreq(epochs, steps),
                                                   priority))]
            /\ nextId' = nextId + 1
            /\ ret' = [op |-> op, given |-> ArgsGiven(epochs, steps),
                       res |-> "none"]
  /\ log' = <<>>
  /\ fired' = <<>>
  /\ raised' = NoRaise
  /\ UNCHANGED <<is_fitting, counter, frames, win, loop, obs, dv, sh>>

\* lines 214-230
log_after(epochs, steps) == CadenceCall("log_after", LogPriority, epochs, steps)

\* lines 267-285
evaluate_after(epochs, steps) ==
  CadenceCall("evaluate_after", EvaluatePriority, epochs, steps)

\* lines 328-346
anneal_after(epochs, steps) ==
  CadenceCall("anneal_after", AnnealPriority, epochs, steps)

SupportedPriority_Any(p) == TRUE

\* HookList.remove_by_priority: whether the priority is one it supports
SupportedPriority(p) == p \in Priorities

\* HookList.remove_by_priority: the entries left
RemoveHooks(hs, p) == SelectSeq(hs, LAMBDA h : h.priority # p)

\* HookList.remove_by_priority: the count it returns
RemovedCount(hs, p) == Len(hs) - Len(RemoveHooks(hs, p))

RECURSIVE RemovedTotal_LastList(_, _)
RemovedTotal_LastList(k, p) ==
  IF k = 0 THEN 0 ELSE RemovedCount(hooks[ListNames[k]], p)

\* lines 189-192: ret after the first k lists of hook_lists
RECURSIVE RemovedTotal(_, _)
RemovedTotal(k, p) ==
  IF k = 0 THEN 0
  ELSE RemovedTotal(k - 1, p) + RemovedCount(hooks[ListNames[k]], p)

\* the call repeats the operation before it
Repeats(op, p) == ret.op = op /\ ret.priority = p

\* lines 179-192, called as op: the first list raises for an unsupported
\* priority, before anything is removed
RemovalCall(op, p) ==
  /\ frames = <<>>
  /\ IF SupportedPriority(p)
       THEN /\ hooks' = [l \in Lists |-> RemoveHooks(hooks[l], p)]
            /\ ret' = [op |-> op, priority |-> p, again |-> Repeats(op, p),
                       err |-> "none",
                       res |-> RemovedTotal(Len(ListNames), p)]
       ELSE /\ ret' = [op |-> op, priority |-> p, again |-> Repeats(op, p),
                       err |-> ConfigurationError, res |-> None]
            /\ UNCHANGED hooks
  /\ log' = <<>>
  /\ fired' = <<>>
  /\ raised' = NoRaise
  /\ UNCHANGED <<is_fitting, counter, nextId, frames, win, loop, obs, dv, sh>>

\* lines 179-192
remove_by_priority(p) == RemovalCall("remove_by_priority", p)

RemoveLogPriority_Annealing == ANNEALING

\* line 239
RemoveLogPriority == LOGGING

\* line 294
RemoveEvaluationPriority == EVALUATION

\* line 355
RemoveAnnealingPriority == ANNEALING

\* lines 232-239
remove_log_hooks == RemovalCall("remove_log_hooks", RemoveLogPriority)

\* lines 287-294
remove_evaluation_hooks ==
  RemovalCall("remove_evaluation_hooks", RemoveEvaluationPriority)

\* lines 348-355
remove_annealing_hooks ==
  RemovalCall("remove_annealing_hooks", RemoveAnnealingPriority)

\* the values tried for epochs and steps
CadenceArgs == {None} \cup {Given(n) : n \in 1..MaxFreq}

\* the values tried for the priority of a removal: the three supported ones
\* and one that is not
RemovalArgs == Priorities \cup {EVALUATION + 1}

NextReg ==
  \/ \E l \in Lists, p \in Priorities : Register(l, 1, p)
  \/ \E e \in CadenceArgs, t \in CadenceArgs : log_after(e, t)
  \/ \E e \in CadenceArgs, t \in CadenceArgs : evaluate_after(e, t)
  \/ \E e \in CadenceArgs, t \in CadenceArgs : anneal_after(e, t)
  \/ \E p \in RemovalArgs : remove_by_priority(p)
  \/ remove_log_hooks
  \/ remove_evaluation_hooks
  \/ remove_annealing_hooks

SpecReg == Init /\ [][NextReg]_vars

\* the counters that a completed run() of e epochs of s payloads each leaves
CountersAfterRun(e, s) ==
  [l \in Lists |-> IF l \in {"before_epochs", "after_epochs"} THEN e ELSE e * s]

\* a trainer without hooks that has not run (e = 0), or is idle again after
\* a run() through the whole budget of its loop
InitCadence ==
  /\ is_fitting = FALSE
  /\ hooks = [l \in Lists |-> <<>>]
  /\ \E e \in {0, MaxEpochs} : counter = CountersAfterRun(e, MaxSteps)
  /\ nextId = 1
  /\ frames = <<>>
  /\ log = <<>>
  /\ fired = <<>>
  /\ raised = NoRaise
  /\ ret = [op |-> "run", res |-> "returned"]
  /\ win = [i \in {} |-> NoRaise]
  /\ loop = [max_epoch |-> MaxEpochs, max_step |-> MaxSteps]
  /\ obs = NoObs
  /\ dv = NoDynamicValue
  /\ sh = NoShapeCall

NextCadence ==
  \/ \E e \in CadenceArgs, t \in CadenceArgs : log_after(e, t)
  \/ \E e \in CadenceArgs, t \in CadenceArgs : evaluate_after(e, t)
  \/ \E e \in CadenceArgs, t \in CadenceArgs : anneal_after(e, t)

SpecCadence == InitCadence /\ [][NextCadence]_vars

\* ----------------------------------------------------------- DynamicValue

\* numbers are exact fractions <<numerator, denominator>>, denominator > 0
Annealed_Added(value, factor) ==
  <<value[1] * factor[2] + factor[1] * value[2], value[2] * factor[2]>>

\* anneal(): the current value times the anneal factor
Annealed(value, factor) == <<value[1] * factor[1], value[2] * factor[2]>>

\* a DynamicValue constructed with initial value v0 and anneal factor f.
\* k counts the anneal() calls made on it; op and res are the most recent
\* call and what it returned
NewDynamicValue(v0, f) ==
  [value |-> v0, factor |-> f, v0 |-> v0, k |-> 0, op |-> "new", res |-> None]

InitDV ==
  /\ Trainer(MaxEpochs, MaxSteps)
  /\ obs = NoObs
  /\ sh = NoShapeCall
  /\ \E n \in (0 - MaxValue)..MaxValue, a \in 0..MaxValue, b \in 1..MaxValue :
       dv = NewDynamicValue(<<n, 1>>, <<a, b>>)

\* value.anneal(), as a hook registered by anneal_after_* calls it (lines
\* 311 and 324) or called directly
Anneal ==
  /\ dv.k < MaxAnneals
  /\ dv' = [dv EXCEPT !.value = Annealed(dv.value, dv.factor),
                      !.k = @ + 1, !.op = "anneal", !.res = None]
  /\ UNCHANGED <<is_fitting, hooks, counter, nextId, frames, log, fired,
                 raised, ret, win, loop, obs, sh>>

\* value.get()
Get ==
  /\ dv' = [dv EXCEPT !.op = "get", !.res = Given(dv.value)]
  /\ UNCHANGED <<is_fitting, hooks, counter, nextId, frames, log, fired,
                 raised, ret, win, loop, obs, sh>>

NextDV ==
  \/ Anneal
  \/ Get

SpecDV == InitDV /\ [][NextDV]_vars

\* ------------------------------------------------------------ shape_utils

\* A tensor is [known, static, dyn]: whether its number of dimensions is
\* known when the graph is built; its static shape, one entry per dimension,
\* None for a dimension known only when the graph runs, Given(n) otherwise
\* (<<>> when known is FALSE); dyn, the shape it has when the graph runs.
\* A shape handed around is [tensor, dims]: a tuple of ints (tensor FALSE) or
\* an int tensor evaluating to dims (tensor TRUE).

RECURSIVE Prod(_)
Prod(dims) == IF dims = <<>> THEN 1 ELSE Head(dims) * Prod(Tail(dims))

HasNone(shape) == \E i \in 1..Len(shape) : shape[i] = None

\* the ints of a static shape without None
Ints(shape) == [i \in 1..Len(shape) |-> shape[i][1]]

\* lines 16-34
int_shape(x) == IF x.known THEN Given(x.static) ELSE None

\* tf.shape(x): the shape of x as the graph runs
tf_shape(x) == [tensor |-> TRUE, dims |-> x.dyn]

\* tf.reshape: the dimensions of the result for the requested ones, where one
\* request may be -1 and stands for what is left of the `size` elements
Inferred(request, size) ==
  [i \in 1..Len(request) |->
     IF request[i] = 0 - 1
       THEN size \div Prod(SelectSeq(request, LAMBDA d : d # 0 - 1))
       ELSE request[i]]

\* tf.reshape(x, request) for request a Python list: the static shape has the
\* requested ints, and the -1 entry when the size of x is known statically
tf_reshape_list(x, request) ==
  [known |-> TRUE,
   static |-> [i \in 1..Len(request) |->
                 IF request[i] # 0 - 1
                   THEN Given(request[i])
                   ELSE IF HasNone(x.static) THEN None
                        ELSE Given(Inferred(request, Prod(Ints(x.static)))[i])],
   dyn |-> Inferred(request, Prod(x.dyn))]

\* tf.reshape(x, request) for request an int tensor, then
\* x.set_shape(static)
tf_reshape_tensor(x, request, static) ==
  [known |-> TRUE, static |-> static, dyn |-> Inferred(request, Prod(x.dyn))]

FrontDims_OneLess(shape, k) == SubSeq(shape, 1, Len(shape) - k)

\* line 102: shape[:-(k-1)]
FrontDims(shape, k) == SubSeq(shape, 1, Len(shape) - (k - 1))

BackDims_FromFront(shape, k) == SubSeq(shape, 1, k - 1)

\* line 102: shape[-(k-1):]
BackDims(shape, k) == SubSeq(shape, Len(shape) - (k - 1) + 1, Len(shape))

\* a shape as flatten() and unflatten() hold it: the static one when it has
\* no None, else the slice of tf.shape(x)
ShapeValue(static, dyn) ==
  IF HasNone(static) THEN [tensor |-> TRUE, dims |-> dyn]
  ELSE [tensor |-> FALSE, dims |-> Ints(static)]

Raises(e) == [err |-> e]

\* lines 67-116: (the flattened tensor, the static front shape, the front
\* shape), or the error raised
flatten(x, k) ==
  IF k < 1 THEN Raises(ValueError)
  ELSE IF ~x.known THEN Raises(ValueError)
  ELSE LET shape == int_shape(x)[1]
       IN  IF Len(shape) < k THEN Raises(ValueError)
           ELSE IF Len(shape) = k
             THEN [err |-> "none", y |-> x, static_front |-> None,
                   front |-> None]
           ELSE IF k = 1
             THEN [err |-> "none",
                   y |-> tf_reshape_list(x, <<0 - 1>>),
                   static_front |-> Given(shape),
                   front |-> Given(ShapeValue(shape, tf_shape(x).dims))]
           ELSE LET static_front_shape == FrontDims(shape, k)
                    static_back_shape  == BackDims(shape, k)
                    front_shape == ShapeValue(static_front_shape,
                                              FrontDims(tf_shape(x).dims, k))
                    back_shape  == ShapeValue(static_back_shape,
                                              BackDims(tf_shape(x).dims, k))
                IN  [err |-> "none",
                     y |-> IF ~back_shape.tensor
                             THEN tf_reshape_list(x, <<0 - 1>> \o back_shape.dims)
                             ELSE tf_reshape_tensor(x, <<0 - 1>> \o back_shape.dims,
                                                    <<None>> \o static_back_shape),
                     static_front |-> Given(static_front_shape),
                     front |-> Given(front_shape)]

\* lines 119-159: the unflattened tensor, or the error raised
unflatten(x, static_front_shape, front_shape) ==
  IF static_front_shape = None /\ front_shape = None
    THEN [err |-> "none", y |-> x]
  ELSE IF ~x.known THEN Raises(ValueError)
  ELSE IF Len(int_shape(x)[1]) < 1 THEN Raises(ValueError)
  ELSE IF front_shape = None THEN Raises("TypeError")
  ELSE LET shape == int_shape(x)[1]
           static_back_shape == Tail(shape)
           back_shape == ShapeValue(static_back_shape, Tail(tf_shape(x).dims))
           front == front_shape[1]
       IN  [err |-> "none",
            y |-> IF ~front.tensor /\ ~back_shape.tensor
                    THEN tf_reshape_list(x, front.dims \o back_shape.dims)
                    ELSE tf_reshape_tensor(x, front.dims \o back_shape.dims,
                                           static_front_shape[1]
                                             \o static_back_shape)]

\* the shapes a tensor of rank r can have as the graph runs
DynShapes(r) == [1..r -> 1..MaxDim]

\* the tensors of known rank: every dimension is known statically or not
KnownTensors ==
  UNION {{[known |-> TRUE,
           static |-> [i \in 1..Len(d) |-> IF i \in u THEN None ELSE Given(d[i])],
           dyn |-> d] : u \in SUBSET (1..Len(d))} :
         d \in UNION {DynShapes(r) : r \in 0..MaxRank}}

\* the tensors whose number of dimensions is not known statically
UnknownTensors ==
  {[known |-> FALSE, static |-> <<>>, dyn |-> d] :
     d \in UNION {DynShapes(r) : r \in 0..MaxRank}}

InitShape ==
  /\ Trainer(MaxEpochs, MaxSteps)
  /\ obs = NoObs
  /\ dv = NoDynamicValue
  /\ \E x \in KnownTensors \cup UnknownTensors :
       sh = [op |-> "new", k |-> 0, x |-> x]

\* flatten(x, k) is called
Flatten(k) ==
  /\ sh.op = "new"
  /\ sh' = [op |-> "flatten", k |-> k, x |-> sh.x, out |-> flatten(sh.x, k)]
  /\ UNCHANGED <<is_fitting, hooks, counter, nextId, frames, log, fired,
                 raised, ret, win, loop, obs, dv>>

\* unflatten is called with what flatten returned
Unflatten ==
  /\ sh.op = "flatten"
  /\ sh.out.err = "none"
  /\ sh' = [op |-> "unflatten", k |-> sh.k, x |-> sh.x, out |-> sh.out,
            back |-> unflatten(sh.out.y, sh.out.static_front, sh.out.front)]
  /\ UNCHANGED <<is_fitting, hooks, counter, nextId, frames, log, fired,
                 raised, ret, win, loop, obs, dv>>

ShiftAxis_NoShift(ndims, a) == a

\* lines 57-58: a negative index counts from the end
ShiftAxis(ndims, a) == IF a < 0 THEN a + ndims ELSE a

\* line 59
AxisOutOfRange(ndims, a) == a < 0 \/ a >= ndims

\* lines 55-64: the loop over `axis`, from index i on, with `ret` so far in `resolved`
RECURSIVE ResolveFrom(_, _, _, _)
ResolveFrom(ndims, axis, i, resolved) ==
  IF i > Len(axis) THEN [err |-> "none", ret |-> resolved]
  ELSE LET a == ShiftAxis(ndims, axis[i])
       IN  IF AxisOutOfRange(ndims, a) THEN Raises(ValueError)
           ELSE ResolveFrom(ndims, axis, i + 1, Append(resolved, a))

\* lines 37-64
resolve_negative_axis(ndims, axis) == ResolveFrom(ndims, axis, 1, <<>>)

\* the index lists handed in: up to MaxAxes indices, some of them out of
\* range for every ndims
AxisLists ==
  UNION {[1..n -> (0 - (MaxRank + 1))..(MaxRank + 1)] : n \in 0..MaxAxes}

\* resolve_negative_axis(ndims, axis) is called
ResolveNegativeAxis(ndims, axis) ==
  /\ sh.op = "new"
  /\ sh' = [op |-> "resolve", k |-> 0, ndims |-> ndims, axis |-> axis,
            out |-> resolve_negative_axis(ndims, axis)]
  /\ UNCHANGED <<is_fitting, hooks, counter, nextId, frames, log, fired,
                 raised, ret, win, loop, obs, dv>>

NextShape ==
  \/ \E k \in 0..(MaxRank + 1) : Flatten(k)
  \/ Unflatten
  \/ \E ndims \in 0..MaxRank, axis \in AxisLists :
       ResolveNegativeAxis(ndims, axis)

SpecShape == InitShape /\ [][NextShape]_vars

\* ------------------------------------------- one HookList, driven directly

\* the window of a hook: its first `freq` triggers since it was registered or
\* the list was last reset. calls: triggers so far (at most freq); firedAt:
\* which of them invoked the hook; clean: none of them was ended by an error;
\* aligned: the window began at reset(), or at a registration made while the
\* counter was a multiple of freq
NewWindow(a) == [calls |-> 0, firedAt |-> {}, clean |-> TRUE, aligned |-> a]

\* the windows after a call_hooks() that invoked the entries fs
Windows(hs, fs, normal) ==
  [id \in DOMAIN win |->
     IF \E i \in 1..Len(hs) : hs[i].id = id /\ win[id].calls < hs[i].freq
       THEN [win[id] EXCEPT
               !.calls = @ + 1,
               !.firedAt = IF \E j \in 1..Len(fs) : fs[j].id = id
                             THEN @ \cup {win[id].calls + 1} ELSE @,
               !.clean = @ /\ normal]
       ELSE win[id]]

\* hook_list.add_hook(callback, freq, priority)
HLAddHook(freq, priority) ==
  /\ frames = <<>>
  /\ nextId <= MaxListHooks
  /\ add_hook(HLList, nextId, freq, priority)
  /\ win' = win @@ (nextId :> NewWindow(counter[HLList] % freq = 0))
  /\ fired' = <<>>
  /\ UNCHANGED <<is_fitting, counter, frames, log, raised,
                 loop, obs, dv, sh>>

\* hook_list.call_hooks(): the counter is incremented and the due callbacks
\* are invoked in order; every one returns (k = 0), or the k-th raises and
\* ends the call
HLCallHooks(k) ==
  /\ frames = <<>>
  /\ counter[HLList] < MaxCalls
  /\ LET c   == TriggerCount(counter[HLList])
         due == DueHooks(hooks[HLList], c)
     IN  /\ k <= Len(due)
         /\ counter' = [counter EXCEPT ![HLList] = c]
         /\ fired' = IF k = 0 THEN due ELSE SubSeq(due, 1, k)
         /\ ret' = [op |-> "call_hooks",
                    res |-> IF k = 0 THEN "returned" ELSE HookError]
         /\ win' = Windows(hooks[HLList], fired', k = 0)
  /\ UNCHANGED <<is_fitting, hooks, nextId, frames, log, raised,
                 loop, obs, dv, sh>>

\* hook_list.reset()
HLReset ==
  /\ frames = <<>>
  /\ counter' = [counter EXCEPT ![HLList] = ResetCount]
  /\ ret' = [op |-> "reset", res |-> "none"]
  /\ win' = [id \in DOMAIN win |-> NewWindow(TRUE)]
  /\ fired' = <<>>
  /\ UNCHANGED <<is_fitting, hooks, nextId, frames, log, raised,
                 loop, obs, dv, sh>>

NextHL ==
  \/ \E f \in 1..MaxFreq, p \in Priorities : HLAddHook(f, p)
  \/ \E k \in 0..MaxListHooks : HLCallHooks(k)
  \/ HLReset

SpecHL == Init /\ [][NextHL]_vars

\* ----------------------------------------------------------------- claims

Ev(i) == log[i][1]

Arg(i) == log[i][2]

StepEvents == {"payload", "before_steps", "run_step", "after_steps"}

RunReturned == frames = <<>> /\ ret = [op |-> "run", res |-> "returned"]

\* C1: a run() call made while the trainer is RUNNING is refused with the
\* re-entrancy error: no run() frame is added to the stack, and the refused
\* call triggers no hook list, runs no step, and changes no hook list or
\* counter; the caller (a callback of the run in progress, or the user) gets
\* the re-entrancy error.
C1_RunWhileRunningRejected ==
  [][ (is_fitting /\ \E s \in BOOLEAN, i \in BOOLEAN : Run(s, i) \/ NestedRun(s, i))
        => /\ Len(frames') = Len(frames)
           /\ is_fitting'
           /\ counter' = counter
           /\ hooks' = hooks
           /\ IF frames = <<>>
                THEN ret'.res = ReentrancyError
                ELSE /\ log' = log
                     /\ fired' = fired
                     /\ frames' = SetTop([Top EXCEPT !.inner = ReentrancyError])
    ]_vars

\* C1 witness: a callback of the run in progress has called run() and holds
\* the re-entrancy error, with the one run() frame still on the stack.
C1_Witness ==
  /\ is_fitting
  /\ Len(frames) = 1
  /\ Top.pc = "callback"
  /\ Top.inner = ReentrancyError

\* C2: whenever no run() call is on the stack (before the first call, and
\* from the moment a run() has returned or its error has reached the caller,
\* whichever way it ended) the trainer is IDLE: the running flag is false.
C2_IdleWhenRunEnds == frames = <<>> => is_fitting = FALSE

\* C2 witness: a run() ended with the error of its step-runner after hooks
\* had been triggered, and the trainer is IDLE.
C2_Witness ==
  /\ frames = <<>>
  /\ ret = [op |-> "run", res |-> StepError]
  /\ raised.err = StepError
  /\ Len(log) > 3
  /\ ~is_fitting

\* C3: the only outcome a run() called from inside a run in progress hands
\* to its caller is the re-entrancy error, and once that error has propagated
\* out of the outer run() the trainer is IDLE.
C3_RecursiveRunRaisesThenIdle ==
  /\ \A n \in 1..Len(frames) : frames[n].inner \in {"none", ReentrancyError}
  /\ (frames = <<>> /\ ret.op = "run" /\ ret.res = ReentrancyError)
       => (~is_fitting /\ raised.err = ReentrancyError)

\* C3 witness: a hook callback called run(), the re-entrancy error left the
\* outer run(), and the trainer is IDLE.
C3_Witness ==
  /\ frames = <<>>
  /\ ret = [op |-> "run", res |-> ReentrancyError]
  /\ log # <<>>
  /\ Ev(Len(log)) \in Lists
  /\ Len(fired) > 0
  /\ ~is_fitting

C5_ErrorPropagatesAndAborts ==
  raised.err # "none" =>
    /\ Len(log) = raised.at
    /\ Len(fired) = raised.nfired
    /\ IF frames = <<>>
         THEN ret = [op |-> "run", res |-> raised.err]
         ELSE Top.pc = "finally" /\ Top.exc = raised.err

\* C5 witness: a before-step hook raised; the run ended with that error, and
\* the before-step trigger is the last thing the run did (no step, no
\* after-step, no after-epoch trigger).
C5_Witness ==
  /\ frames = <<>>
  /\ ret = [op |-> "run", res |-> HookError]
  /\ log # <<>>
  /\ Ev(Len(log)) = "before_steps"

\* C6: for every epoch the iterator yields, the before-epoch list is
\* triggered exactly once, right after the yield and so before any step of
\* the epoch; the after-epoch list is triggered at most once, after the last
\* step of the epoch, and exactly once before the next epoch is yielded or
\* run() returns normally; steps happen only between the two (nothing of a
\* step directly follows the yield of an epoch or an after-epoch trigger).
\* The yields are numbered 0, 1, 2, ... along the log, each trigger carries
\* the number of its epoch, a before-epoch trigger occurs only right after
\* the yield of its epoch and an after-epoch trigger only right before the
\* next yield or at the end of the log, so no epoch has two of either.
C6_EpochHooksAroundSteps ==
  /\ \A i \in DOMAIN log :
       LET e == log[i]
           n == Len(log)
       IN  CASE e[1] = "epoch" ->
                  /\ i = 1 => e[2] = 0
                  /\ i > 1 => log[i - 1] = <<"after_epochs", e[2] - 1>>
                  /\ i < n => log[i + 1] = <<"before_epochs", e[2]>>
             [] e[1] = "before_epochs" ->
                  i > 1 /\ log[i - 1] = <<"epoch", e[2]>>
             [] e[1] = "after_epochs" ->
                  /\ i > 1
                  /\ \/ log[i - 1] = <<"before_epochs", e[2]>>
                     \/ log[i - 1][1] = "after_steps"
                  /\ i < n => log[i + 1] = <<"epoch", e[2] + 1>>
                  /\ \E j \in 1..(i - 1) :
                       /\ log[j] = <<"epoch", e[2]>>
                       /\ \A k \in (j + 1)..(i - 1) :
                            log[k][1] \notin {"epoch", "after_epochs"}
             [] OTHER ->
                  i > 1 /\ log[i - 1][1] \in StepEvents \cup {"before_epochs"}
  /\ (RunReturned /\ log # <<>>) => log[Len(log)][1] = "after_epochs"

\* C6 witness: an epoch with two steps was closed by its after-epoch trigger
\* and the next epoch began with its before-epoch trigger.
C6_Witness ==
  \E i \in 2..Len(log) :
    /\ log[i] = <<"after_epochs", 0>>
    /\ log[i - 1] = <<"after_steps", 2>>
    /\ i + 2 <= Len(log)
    /\ log[i + 1] = <<"epoch", 1>>
    /\ log[i + 2] = <<"before_epochs", 1>>

\* C7: every payload the step iterator yields is followed, with nothing in
\* between, by one before-step trigger, one call of the step-runner with that
\* payload and one after-step trigger, in this order (the sequence stops early
\* only where an error aborts the run), and none of the three happens
\* anywhere else.
C7_StepEventsInOrder ==
  /\ \A i \in DOMAIN log :
       LET e == log[i]
           n == Len(log)
       IN  CASE e[1] = "payload" ->
                  i < n => log[i + 1] = <<"before_steps", e[2]>>
             [] e[1] = "before_steps" ->
                  /\ i > 1 /\ log[i - 1] = <<"payload", e[2]>>
                  /\ i < n => log[i + 1] = <<"run_step", e[2]>>
             [] e[1] = "run_step" ->
                  /\ i > 2 /\ log[i - 1] = <<"before_steps", e[2]>>
                  /\ log[i - 2] = <<"payload", e[2]>>
                  /\ i < n => log[i + 1] = <<"after_steps", e[2]>>
             [] e[1] = "after_steps" ->
                  /\ i > 1 /\ log[i - 1] = <<"run_step", e[2]>>
                  /\ i < n => log[i + 1][1] \in {"payload", "after_epochs"}
             [] OTHER -> TRUE
  /\ RunReturned => (log = <<>> \/ Ev(Len(log)) = "after_epochs")
  /\ (raised.err = "none" /\ frames # <<>> /\ log # <<>>
        /\ Ev(Len(log)) \in {"payload", "before_steps", "run_step"})
       => Top.pc \in {"before_steps", "callback", "call_step", "run_step",
                      "after_steps"}

\* C7 witness: two payloads of one epoch were processed one after the other,
\* each with its before-step trigger, its step and its after-step trigger.
C7_Witness ==
  \E i \in 1..Len(log) :
    /\ i + 7 <= Len(log)
    /\ log[i] = <<"payload", 1>>
    /\ log[i + 1] = <<"before_steps", 1>>
    /\ log[i + 2] = <<"run_step", 1>>
    /\ log[i + 3] = <<"after_steps", 1>>
    /\ log[i + 4] = <<"payload", 2>>
    /\ log[i + 5] = <<"before_steps", 2>>
    /\ log[i + 6] = <<"run_step", 2>>
    /\ log[i + 7] = <<"after_steps", 2>>

\* the hook of the directly driven list registered as id
HookOf(id) ==
  CHOOSE h \in {hooks[HLList][i] : i \in 1..Len(hooks[HLList])} : h.id = id

\* C8: the hooks a call_hooks() invokes are invoked in ascending priority
\* order, and those of equal priority in the order of their registration,
\* whatever the sequence of add_hook calls was; the list itself is kept in
\* that order.
C8_PriorityThenRegistrationOrder ==
  /\ \A i, j \in 1..Len(fired) :
       i < j => \/ fired[i].priority < fired[j].priority
                \/ /\ fired[i].priority = fired[j].priority
                   /\ fired[i].id < fired[j].id
  /\ \A l \in Lists : \A i, j \in 1..Len(hooks[l]) :
       i < j => \/ hooks[l][i].priority < hooks[l][j].priority
                \/ /\ hooks[l][i].priority = hooks[l][j].priority
                   /\ hooks[l][i].id < hooks[l][j].id

\* C8 witness: one call_hooks() invoked two hooks, the one of lower priority
\* value first although it was registered last.
C8_Witness ==
  /\ ret.op = "call_hooks"
  /\ Len(fired) = 2
  /\ fired[1].priority < fired[2].priority
  /\ fired[1].id > fired[2].id

C10_CounterGating ==
  [][ /\ (\E k \in 0..MaxListHooks : HLCallHooks(k)) =>
           LET c   == counter'[HLList]
               due == SelectSeq(hooks[HLList], LAMBDA h : c % h.freq = 0)
           IN  /\ c = counter[HLList] + 1
               /\ \A l \in Lists \ {HLList} : counter'[l] = counter[l]
               /\ hooks' = hooks
               /\ IsPrefix(fired', due)
               /\ ret'.res = "returned" => fired' = due
               /\ ret'.res # "returned" => fired' # <<>>
      /\ HLReset => counter'[HLList] = 0 /\ hooks' = hooks
    ]_vars

\* C10 witness: the third call_hooks() of a list holding a hook of frequency
\* 1 and a hook of frequency 2 returned having invoked only the first.
C10_Witness ==
  /\ ret = [op |-> "call_hooks", res |-> "returned"]
  /\ counter[HLList] = 3
  /\ Len(hooks[HLList]) = 2
  /\ Len(fired) = 1
  /\ fired[1].freq = 1

\* ------------------------------------------------------ claims on SpecRuns

\* the most recent run() call passed line 70 and the precondition checks
RunPassedChecks ==
  IF frames # <<>>
    THEN frames[1].exc \notin InitErrors
    ELSE ret.op = "run" /\ ret.res \notin InitErrors \cup {ReentrancyError}

\* the observed invocations of the callback id of list l, in order
CallsOf(l, id) == SelectSeq(obs.calls, LAMBDA c : c.list = l /\ c.id = id)

\* the callback id of list l was invoked by the n-th call_hooks() of l
InvokedAt(l, id, n) ==
  \E k \in 1..Len(obs.calls) :
    obs.calls[k].list = l /\ obs.calls[k].id = id /\ obs.calls[k].n = n

\* the n-th call_hooks() of l in this run did not get to the callback h: it is
\* the call in progress, and h is still to be invoked or an error ended it
NotReached(l, h, n) ==
  /\ n = Triggers(l)
  /\ log[Len(log)][1] = l
  /\ \/ raised.err # "none"
     \/ /\ frames # <<>>
        /\ Top.pc = "callback"
        /\ \E k \in 1..Len(Top.pending) : Top.pending[k] = h

\* C11: in every run() that passed its precondition checks, the trigger
\* counter of each of the four hook lists equals the number of call_hooks()
\* of that list made by this run, whatever the counters were when run() was
\* called; so a hook of frequency F is invoked by the n-th call_hooks() of
\* its list within the run exactly when n is a multiple of F (the F-th, the
\* 2F-th, ...), except that a call_hooks() ended by an error does not get to
\* the hooks after the failing one.
C11_CountersRestartEachRun ==
  RunPassedChecks =>
    /\ \A l \in Lists : counter[l] = Triggers(l)
    /\ \A k \in 1..Len(obs.calls) :
         \E j \in 1..Len(hooks[obs.calls[k].list]) :
           LET h == hooks[obs.calls[k].list][j]
           IN  h.id = obs.calls[k].id /\ obs.calls[k].n % h.freq = 0
    /\ \A l \in Lists : \A j \in 1..Len(hooks[l]) : \A n \in 1..Triggers(l) :
         LET h == hooks[l][j]
         IN  /\ n % h.freq = 0 =>
                  InvokedAt(l, h.id, n) \/ NotReached(l, h, n)
             /\ Len(CallsOf(l, h.id)) <= Triggers(l) \div h.freq

\* C11 witness: a run() was called while the after-step counter, left by an
\* earlier run, was no multiple of the after-step hook's frequency; in this
\* run the hook was invoked for the first time by the E2EFreq-th after-step
\* trigger, and not before.
C11_Witness ==
  /\ obs.stale
  /\ frames # <<>>
  /\ Top.pc = "callback"
  /\ Top.list = "after_steps"
  /\ Triggers("after_steps") = E2EFreq
  /\ Len(CallsOf("after_steps", 2)) = 1
  /\ InvokedAt("after_steps", 2, E2EFreq)

\* the loop yielded all its epochs, each with all its payloads, and run()
\* returned normally
FullRun ==
  /\ RunReturned
  /\ Cardinality({i \in DOMAIN log : log[i] = <<"payload", loop.max_step>>})
       = loop.max_epoch

\* C12: when the loop yields E2EEpochs (3) epochs of E2ESteps (2) payloads
\* each and run() returns, the before-epoch hook of frequency 1 has been
\* invoked once per epoch, with the epoch indices 0, 1, ... in order (the
\* epoch log is [0,1,2]), and the after-step hook of frequency E2EFreq (2)
\* has been invoked (E2EEpochs * E2ESteps) \div E2EFreq (3) times, by the
\* after-step triggers whose number in the run is a multiple of E2EFreq;
\* with E2ESteps = E2EFreq that is exactly once in each epoch.
C12_EndToEnd ==
  FullRun =>
    /\ Len(CallsOf("before_epochs", 1)) = loop.max_epoch
    /\ \A k \in 1..Len(CallsOf("before_epochs", 1)) :
         CallsOf("before_epochs", 1)[k].epoch = k - 1
    /\ Len(CallsOf("after_steps", 2))
         = (loop.max_epoch * loop.max_step) \div E2EFreq
    /\ \A k \in 1..Len(CallsOf("after_steps", 2)) :
         CallsOf("after_steps", 2)[k].n = k * E2EFreq
    /\ loop.max_step = E2EFreq =>
         \A e \in 0..(loop.max_epoch - 1) :
           Cardinality({k \in 1..Len(obs.calls) :
                          /\ obs.calls[k].list = "after_steps"
                          /\ obs.calls[k].epoch = e}) = 1

\* C12 witness: such a run has returned; the last invocation of the
\* after-step hook was in the last epoch, after its last payload.
C12_Witness ==
  /\ FullRun
  /\ Len(obs.calls) = loop.max_epoch + (loop.max_epoch * loop.max_step) \div E2EFreq
  /\ obs.calls[Len(obs.calls)] =
       [list |-> "after_steps", id |-> 2,
        n |-> loop.max_epoch * loop.max_step,
        epoch |-> loop.max_epoch - 1, step |-> loop.max_step]

\* ------------------------------------------------------- claims on SpecReg

CadenceOps == {"log_after", "evaluate_after", "anneal_after"}

RemovalOps == {"remove_by_priority", "remove_log_hooks",
               "remove_evaluation_hooks", "remove_annealing_hooks"}

\* the sequence s without its k-th element
RemoveAt(s, k) == SubSeq(s, 1, k - 1) \o SubSeq(s, k + 1, Len(s))

\* the step added exactly one hook, of frequency freq and priority priority,
\* to list l, and left the other entries of l and the other lists as they were
AddedOne(l, freq, priority) ==
  /\ \E k \in 1..Len(hooks'[l]) :
       /\ hooks'[l][k].freq = freq
       /\ hooks'[l][k].priority = priority
       /\ RemoveAt(hooks'[l], k) = hooks[l]
  /\ \A m \in Lists \ {l} : hooks'[m] = hooks[m]

\* the hooks of priority p on the four lists, as (list, position) pairs
HooksOfPriority(p) ==
  {<<l, k>> \in Lists \X (1..MaxRegistrations) :
     k <= Len(hooks[l]) /\ hooks[l][k].priority = p}

\* the step removed the hooks of priority p, and only them, from all four
\* lists, and returned their number
RemovedAll(p) ==
  /\ \A l \in Lists :
       /\ \A k \in 1..Len(hooks'[l]) : hooks'[l][k].priority # p
       /\ \A k \in 1..Len(hooks[l]) :
            hooks[l][k].priority # p =>
              \E j \in 1..Len(hooks'[l]) : hooks'[l][j] = hooks[l][k]
       /\ \A i, j \in 1..Len(hooks'[l]) :
            i < j => \E a, b \in 1..Len(hooks[l]) :
                       a < b /\ hooks[l][a] = hooks'[l][i]
                             /\ hooks[l][b] = hooks'[l][j]
  /\ ret'.err = "none"
  /\ ret'.res = Cardinality(HooksOfPriority(p))

\* C13: log_after, evaluate_after and anneal_after raise the configuration
\* error when both epochs and steps are given and when neither is given; the
\* call registers nothing.
C13_BothOrNeitherRaises ==
  [][ \A e \in CadenceArgs, t \in CadenceArgs :
        ( /\ (e # None /\ t # None) \/ (e = None /\ t = None)
          /\ log_after(e, t) \/ evaluate_after(e, t) \/ anneal_after(e, t) )
          => /\ ret'.res = ConfigurationError
             /\ hooks' = hooks
             /\ nextId' = nextId ]_vars

\* C13 witness: a call with both epochs and steps given has raised, on a
\* trainer that has a hook on after_epochs.
C13_Witness ==
  /\ ret.op \in CadenceOps
  /\ ret.res = ConfigurationError
  /\ ret.given = "both"
  /\ hooks["after_epochs"] # <<>>

\* C14: a cadence registration with exactly one of epochs / steps adds
\* exactly one hook: to after_epochs when epochs is given, to after_steps
\* when steps is given, with the given value as its frequency and with the
\* priority of the method (LOGGING, EVALUATION, ANNEALING); the entries
\* already on that list and the other three lists are unchanged.
C14_AddsOneHook ==
  [][ \A n \in 1..MaxFreq :
        /\ log_after(Given(n), None) => AddedOne("after_epochs", n, LOGGING)
        /\ log_after(None, Given(n)) => AddedOne("after_steps", n, LOGGING)
        /\ evaluate_after(Given(n), None)
             => AddedOne("after_epochs", n, EVALUATION)
        /\ evaluate_after(None, Given(n))
             => AddedOne("after_steps", n, EVALUATION)
        /\ anneal_after(Given(n), None)
             => AddedOne("after_epochs", n, ANNEALING)
        /\ anneal_after(None, Given(n))
             => AddedOne("after_steps", n, ANNEALING) ]_vars

\* C14 witness: anneal_after(steps=MaxFreq) put an ANNEALING hook of that
\* frequency on after_steps, before a LOGGING hook registered earlier.
C14_Witness ==
  /\ ret = [op |-> "anneal_after", given |-> "steps", res |-> "none"]
  /\ Len(hooks["after_steps"]) = 2
  /\ hooks["after_steps"][1].priority = ANNEALING
  /\ hooks["after_steps"][1].freq = MaxFreq
  /\ hooks["after_steps"][1].id > hooks["after_steps"][2].id
  /\ hooks["after_steps"][2].priority = LOGGING

\* C15: remove_by_priority(p) with a supported p removes every hook of
\* priority exactly p from the four lists, keeps the others, and returns the
\* number removed; called again right after with the same p it returns 0 and
\* changes nothing.
C15_RemoveByPriorityIdempotent ==
  [][ \A p \in Priorities :
        remove_by_priority(p) =>
          /\ RemovedAll(p)
          /\ Repeats("remove_by_priority", p)
               => (ret'.res = 0 /\ hooks' = hooks) ]_vars

\* C15 witness: after MaxRegistrations registrations, a call has been
\* repeated with the same supported priority and returned 0, leaving a hook
\* of another priority registered.
C15_Witness ==
  /\ ret.op = "remove_by_priority"
  /\ ret.priority \in Priorities
  /\ ret.again
  /\ ret.err = "none"
  /\ ret.res = 0
  /\ nextId = MaxRegistrations + 1
  /\ \E l \in Lists : Len(hooks[l]) = 1

\* C16: remove_log_hooks, remove_evaluation_hooks and remove_annealing_hooks
\* remove from the four lists exactly the hooks of priority LOGGING,
\* EVALUATION and ANNEALING respectively and return their number; the hooks
\* of the other priorities stay, in the same order and unchanged.
C16_RemoveOwnPriorityOnly ==
  [][ /\ remove_log_hooks => RemovedAll(LOGGING)
      /\ remove_evaluation_hooks => RemovedAll(EVALUATION)
      /\ remove_annealing_hooks => RemovedAll(ANNEALING) ]_vars

\* C16 witness: remove_log_hooks removed one hook and left a hook of another
\* priority on the same list.
C16_Witness ==
  /\ ret.op = "remove_log_hooks"
  /\ ret.res = 1
  /\ nextId = MaxRegistrations + 1
  /\ \E l \in Lists : Len(hooks[l]) = 1 /\ hooks[l][1].priority # LOGGING

RECURSIVE Pow(_, _)
Pow(x, n) == IF n = 0 THEN 1 ELSE x * Pow(x, n - 1)

\* the fractions a and b are the same number
SameNumber(a, b) == a[1] * b[2] = b[1] * a[2]

\* v0 * f^k
AnnealedTimes(v0, f, k) == <<v0[1] * Pow(f[1], k), v0[2] * Pow(f[2], k)>>

\* C18: get() on a DynamicValue of initial value v0 and anneal factor f
\* returns v0 * f^k after k calls of anneal(), for every k >= 0; anneal()
\* returns nothing and changes the current value only (the factor, the hook
\* lists and the trainer are as before).
C18_AnnealIsGeometric ==
  [][ /\ Get => /\ dv'.res # None
                /\ SameNumber(dv'.res[1], AnnealedTimes(dv.v0, dv.factor, dv.k))
                /\ dv'.value = dv.value
                /\ dv'.factor = dv.factor
      /\ Anneal => /\ dv'.res = None
                   /\ dv'.factor = dv.factor
                   /\ dv'.v0 = dv.v0
                   /\ hooks' = hooks
                   /\ counter' = counter
                   /\ is_fitting' = is_fitting ]_vars

\* C18 witness: after MaxAnneals calls of anneal() on a value that began at
\* MaxValue with factor 1/2, get() returned MaxValue / 2^MaxAnneals.
C18_Witness ==
  /\ dv.op = "get"
  /\ dv.k = MaxAnneals
  /\ dv.v0 = <<MaxValue, 1>>
  /\ dv.factor = <<1, 2>>
  /\ dv.res = Given(<<MaxValue, Pow(2, MaxAnneals)>>)


\* ---- shape_utils: flatten and unflatten

Rank(x) == Len(x.static)

Flattened == sh.op \in {"flatten", "unflatten"}

\* flatten(x, k) was called on a tensor of known rank with 1 <= k <= rank
FlattenInRange == Flattened /\ sh.x.known /\ 1 <= sh.k /\ sh.k <= Rank(sh.x)

\* C19: for x of known rank r and 1 <= k <= r, flatten(x, k) raises nothing
\* and unflatten on its three results gives a tensor with the shape of x, the
\* static one and the one the graph runs with; when r = k, flatten returns
\* (x, None, None) and unflatten, given None for both front shapes, returns
\* its input unchanged.
C19_FlattenUnflattenRoundTrip ==
  FlattenInRange =>
    /\ sh.out.err = "none"
    /\ Rank(sh.x) = sh.k =>
         sh.out = [err |-> "none", y |-> sh.x, static_front |-> None,
                   front |-> None]
    /\ sh.op = "unflatten" =>
         /\ sh.back.err = "none"
         /\ sh.back.y.known
         /\ sh.back.y.static = sh.x.static
         /\ sh.back.y.dyn = sh.x.dyn
         /\ Rank(sh.x) = sh.k => sh.back.y = sh.out.y

\* the round trip went through a tensor of fewer dimensions, with a dimension
\* known only as the graph runs on each side of the cut
C19_Witness ==
  /\ sh.op = "unflatten"
  /\ 1 < sh.k
  /\ sh.k < Rank(sh.x)
  /\ HasNone(FrontDims(sh.x.static, sh.k))
  /\ HasNone(BackDims(sh.x.static, sh.k))
  /\ Rank(sh.out.y) = sh.k
  /\ sh.back.y.dyn = sh.x.dyn

\* flatten(x, k) raises ValueError exactly when k < 1, the rank of x is not
\* known, or k exceeds the rank
FlattenRaises ==
  Flattened =>
    ((sh.out.err = ValueError)
       <=> (sh.k < 1 \/ ~sh.x.known \/ sh.k > Rank(sh.x)))

\* with r the rank of x and 1 <= k < r: the result has exactly k dimensions,
\* the last k-1 are those of x, the leading one is the product of the first
\* r-(k-1) dimensions of x (statically so when every dimension of x is known
\* statically, and statically unknown otherwise)
FlattenedShape ==
  (FlattenInRange /\ sh.k < Rank(sh.x)) =>
    LET r == Rank(sh.x)
        y == sh.out.y
    IN  /\ y.known
        /\ Len(y.static) = sh.k
        /\ Len(y.dyn) = sh.k
        /\ \A i \in 2..sh.k :
             /\ y.dyn[i] = sh.x.dyn[r - sh.k + i]
             /\ y.static[i] = sh.x.static[r - sh.k + i]
        /\ y.dyn[1] = Prod(SubSeq(sh.x.dyn, 1, r - (sh.k - 1)))
        /\ y.static[1] = IF HasNone(sh.x.static) THEN None
                         ELSE Given(Prod(SubSeq(sh.x.dyn, 1, r - (sh.k - 1))))

\* the front shape returned is the first r-(k-1) dimensions of x: the static
\* one with None where x has None, the other one with the dimensions the graph
\* runs with, as a tuple when all are known statically
FlattenedFront ==
  (FlattenInRange /\ sh.k < Rank(sh.x)) =>
    LET n == Rank(sh.x) - (sh.k - 1)
    IN  /\ sh.out.static_front = Given(SubSeq(sh.x.static, 1, n))
        /\ sh.out.front # None
        /\ sh.out.front[1].dims = SubSeq(sh.x.dyn, 1, n)
        /\ sh.out.front[1].tensor = HasNone(SubSeq(sh.x.static, 1, n))

\* C20: flatten(x, k) raises ValueError when k < 1, when the rank of x is not
\* known and when k exceeds the rank r of x.  Otherwise, when k < r, its
\* result has exactly k dimensions, the last k-1 unchanged and the leading one
\* the product of the collapsed front dimensions, and the front shape it
\* returns is the first r-(k-1) dimensions of x; when k = r it returns x
\* itself and None for both front shapes.
C20_FlattenResult ==
  /\ FlattenRaises
  /\ FlattenedShape
  /\ FlattenedFront
  /\ (FlattenInRange /\ sh.k = Rank(sh.x)) =>
       /\ sh.out.y = sh.x
       /\ sh.out.static_front = None
       /\ sh.out.front = None

\* k-1 trailing dimensions were kept and more than one front dimension was
\* collapsed into a leading dimension larger than each of them
C20_Witness ==
  /\ sh.op = "flatten"
  /\ sh.x.known
  /\ 1 < sh.k
  /\ sh.k < Rank(sh.x)
  /\ sh.out.err = "none"
  /\ sh.out.y.dyn[1] > MaxDim
  /\ sh.out.front # None

\* C20 as the specification words it: whenever no ValueError is due for k < 1
\* or for k above the rank, the result has exactly k dimensions and the front
\* shape returned is the first r-(k-1) dimensions of x, the case k = r
\* included.
C20_Original ==
  Flattened =>
    IF sh.k < 1 \/ (sh.x.known /\ sh.k > Rank(sh.x))
      THEN sh.out.err = ValueError
      ELSE /\ sh.out.err = "none"
           /\ sh.out.front # None
           /\ Len(sh.out.y.dyn) = sh.k
           /\ \A i \in 2..sh.k :
                sh.out.y.dyn[i] = sh.x.dyn[Rank(sh.x) - sh.k + i]
           /\ sh.out.y.dyn[1]
                = Prod(SubSeq(sh.x.dyn, 1, Rank(sh.x) - (sh.k - 1)))
           /\ sh.out.front[1].dims
                = SubSeq(sh.x.dyn, 1, Rank(sh.x) - (sh.k - 1))


\* ---- shape_utils: resolve_negative_axis

Resolved == sh.op = "resolve"

InAxisRange(ndims, a) == 0 - ndims <= a /\ a < ndims

\* C21: resolve_negative_axis(ndims, axis) raises ValueError if and only if
\* some index is outside [-ndims, ndims); otherwise it returns, in input
\* order, a + ndims for each negative index a and a itself for each
\* non-negative one, so every result lies in [0, ndims).
C21_ResolveNegativeAxis ==
  Resolved =>
    /\ (sh.out.err = ValueError)
         <=> (\E i \in 1..Len(sh.axis) : ~InAxisRange(sh.ndims, sh.axis[i]))
    /\ sh.out.err # ValueError =>
         /\ sh.out.err = "none"
         /\ Len(sh.out.ret) = Len(sh.axis)
         /\ \A i \in 1..Len(sh.axis) :
              /\ sh.axis[i] < 0 => sh.out.ret[i] = sh.axis[i] + sh.ndims
              /\ sh.axis[i] >= 0 => sh.out.ret[i] = sh.axis[i]
              /\ 0 <= sh.out.ret[i]
              /\ sh.out.ret[i] < sh.ndims

\* a non-negative index and a negative one, in this order, were resolved to
\* two different axes
C21_Witness ==
  /\ Resolved
  /\ sh.out.err = "none"
  /\ Len(sh.axis) = 2
  /\ sh.axis[1] >= 0
  /\ sh.axis[2] < 0
  /\ sh.out.ret[1] < sh.out.ret[2]


\* ---- the trainer again: re-entrancy, the flag, trigger counts, termination

\* C22: a run() call refused for re-entrancy does not clear the running flag:
\* from the refusal until the outer run() ends the trainer stays RUNNING with
\* the one outer run() on the stack, so that a callback that caught the error
\* and calls run() again is refused again (the only outcome it ever holds is
\* the re-entrancy error), and the refused call resets no counter: each
\* list's counter is still the number of its triggers since the run's reset.
C22_RejectionKeepsRunning ==
  (obs.rejected > 0 /\ frames # <<>>) =>
    /\ is_fitting
    /\ Len(frames) = 1
    /\ Top.inner \in {"none", ReentrancyError}
    /\ \A l \in Lists : counter[l] = Triggers(l)

\* a callback caught the re-entrancy error of its first run() call, called
\* run() again and holds the error of that second call, after hook lists were
\* triggered in the run
C22_Witness ==
  /\ obs.rejected = 2
  /\ frames # <<>>
  /\ Top.pc = "callback"
  /\ Top.inner = ReentrancyError
  /\ is_fitting
  /\ counter["after_steps"] > 0


\* the places of a run() at which code handed to the trainer executes: a
\* hook callback, the step iterator, the step-runner
InCallee(f) == f.pc \in {"callback", "step_iter", "run_step"}

\* C23: the running flag is true in every state in which a hook callback,
\* the step iterator or the step-runner of the trainer is executing, and
\* false in every state in which no run() call is on the stack.
C23_FlagTracksRun ==
  /\ \A n \in 1..Len(frames) : InCallee(frames[n]) => is_fitting
  /\ frames = <<>> => ~is_fitting

\* the step-runner executes the first payload of the second epoch, with the
\* flag set
C23_Witness ==
  /\ frames # <<>>
  /\ Top.pc = "run_step"
  /\ Top.epoch = 2
  /\ Top.step = 1
  /\ is_fitting


\* the events of kind e logged since the reset of the run in progress (or of
\* the most recent run)
Events(e) == Cardinality({i \in DOMAIN log : log[i][1] = e})

\* C24: at every point of a run, counting since that run's reset: after-step
\* triggers <= step-runner executions <= before-step triggers <= after-step
\* triggers + 1, and after-epoch triggers <= before-epoch triggers <=
\* after-epoch triggers + 1; the trigger counter of each list is its number
\* of triggers; when run() completes normally the three step counts equal the
\* number of step payloads and the two epoch counts the number of epochs.
C24_TriggerCountsInterleave ==
  RunPassedChecks =>
    /\ Events("after_steps") <= Events("run_step")
    /\ Events("run_step") <= Events("before_steps")
    /\ Events("before_steps") <= Events("after_steps") + 1
    /\ Events("after_epochs") <= Events("before_epochs")
    /\ Events("before_epochs") <= Events("after_epochs") + 1
    /\ \A l \in Lists : counter[l] = Events(l)
    /\ RunReturned =>
         /\ Events("before_steps") = Events("payload")
         /\ Events("run_step") = Events("payload")
         /\ Events("after_steps") = Events("payload")
         /\ Events("before_epochs") = Events("epoch")
         /\ Events("after_epochs") = Events("epoch")

\* a run() of several epochs and payloads completed normally
C24_Witness ==
  /\ RunReturned
  /\ Events("epoch") >= 2
  /\ Events("payload") >= 3
  /\ counter["after_steps"] = Events("payload")


StepLists == {"before_steps", "after_steps"}

\* the entries of list l whose frequency divides n, in firing order
EveryNth(l, n) == SelectSeq(hooks[l], LAMBDA h : n % h.freq = 0)

\* C25: the step-level hook lists are not reset between the epochs of a run:
\* the call_hooks() a step makes on the before-step or the after-step list
\* invokes the hooks whose frequency divides the number of steps made since
\* the run began, whatever the number of the step within its epoch.  Up to
\* the next event of the run, the hooks invoked by the call, with those still
\* to invoke, are exactly these (those before the error, if one ended it).
C25_StepHooksCountAcrossEpochs ==
  (frames # <<>> /\ log # <<>> /\ Ev(Len(log)) \in StepLists) =>
    LET l   == Ev(Len(log))
        due == EveryNth(l, Events(l))
    IN  CASE Top.pc = "callback" -> fired \o Top.pending = due
          [] Top.pc = "finally"  -> IsPrefix(fired, due)
          [] OTHER               -> fired = due

\* a hook of frequency 2 was invoked by the first step of the second epoch,
\* the second step of the run
C25_Witness ==
  /\ frames # <<>>
  /\ log # <<>>
  /\ Ev(Len(log)) \in StepLists
  /\ Top.epoch = 2
  /\ Top.step = 1
  /\ Events(Ev(Len(log))) = 2
  /\ Len(fired) = 1
  /\ fired[1].freq = 2
  /\ Top.pc = "callback"


\* ---- cadence registrations that raise

\* C26: when a cadence registration call (log_after, evaluate_after,
\* anneal_after) raises the configuration error, no hook has been added: the
\* four hook lists and their counters are exactly as before the call.
C26_FailedCadenceChangesNothing ==
  [][ ( /\ \E e \in CadenceArgs, t \in CadenceArgs :
             log_after(e, t) \/ evaluate_after(e, t) \/ anneal_after(e, t)
        /\ ret'.res = ConfigurationError )
        => /\ hooks' = hooks
           /\ counter' = counter
           /\ nextId' = nextId ]_vars

\* a call with neither epochs nor steps has raised on a trainer whose lists
\* have hooks and whose counters an earlier run() left above zero
C26_Witness ==
  /\ ret.op \in CadenceOps
  /\ ret.res = ConfigurationError
  /\ ret.given = "neither"
  /\ hooks["after_steps"] # <<>>
  /\ hooks["after_epochs"] # <<>>
  /\ counter["after_steps"] > 0


\* ---- empty iterations

\* the position after the events of the epoch yielded at position i: that of
\* the next epoch, or the end of the log
EpochEnd(i) ==
  LET later == {j \in (i + 1)..Len(log) : Ev(j) = "epoch"}
  IN  IF later = {} THEN Len(log) + 1
      ELSE CHOOSE j \in later : \A k \in later : j <= k

\* the events of the epoch yielded at position i
EpochEvents(i) == SubSeq(log, i + 1, EpochEnd(i) - 1)

\* the epoch yielded at position i is over and no error ended it
EpochOver(i) ==
  \/ EpochEnd(i) <= Len(log)
  \/ RunReturned
  \/ frames # <<>> /\ Top.exc = "none" /\ Top.pc \in {"epoch_iter", "finally"}

\* C27: an epoch whose step iterator yields no payload still triggers the
\* before-epoch and the after-epoch hook list exactly once each, in this
\* order, and triggers neither step hook list nor the step-runner; a run
\* whose epoch iterator yields no epoch triggers no hook list at all (every
\* counter is 0 as the iterator ends) and returns normally with the trainer
\* IDLE.
C27_EmptyIterations ==
  /\ \A i \in DOMAIN log :
       (Ev(i) = "epoch"
          /\ \A j \in 1..Len(EpochEvents(i)) : EpochEvents(i)[j][1] # "payload")
         => /\ IsPrefix(EpochEvents(i), << <<"before_epochs", Arg(i)>>,
                                           <<"after_epochs", Arg(i)>> >>)
            /\ EpochOver(i) => Len(EpochEvents(i)) = 2
  /\ (frames # <<>> /\ Top.pc = "finally" /\ Top.exc = "none" /\ Top.epoch = 0)
       => /\ log = <<>>
          /\ \A l \in Lists : counter[l] = 0
  /\ (RunReturned /\ Events("epoch") = 0)
       => /\ log = <<>>
          /\ \A l \in Lists : counter[l] = 0
          /\ ~is_fitting

\* a run() returned normally after an epoch without payloads, which
\* triggered the two epoch lists, and an epoch with a payload
C27_Witness ==
  /\ RunReturned
  /\ Len(log) > 5
  /\ Ev(1) = "epoch"
  /\ Ev(2) = "before_epochs"
  /\ Ev(3) = "after_epochs"
  /\ Ev(4) = "epoch"
  /\ Events("payload") > 0
  /\ counter["before_epochs"] = Events("epoch")


\* ---- termination

\* C28: run() terminates: with an epoch iterator that yields finitely many
\* epochs, step iterators that yield finitely many payloads, and hook
\* callbacks and step-runner calls that each return or raise, every run()
\* that starts eventually ends with the trainer IDLE.
C28_RunTerminates == (frames # <<>>) ~> (frames = <<>> /\ ~is_fitting)

\* a run() through the whole budget of the loop has returned and the trainer
\* is IDLE
C28_Witness ==
  /\ RunReturned
  /\ ~is_fitting
  /\ Events("epoch") = MaxEpochs
  /\ Events("payload") = MaxEpochs * MaxSteps
  /\ counter["after_epochs"] = MaxEpochs

====
